---- MODULE Spec2Model ----
(***************************************************************************)
(* State-machine model of gps_tracker.py: the poll / buffer / flush /      *)
(* backlog-drain loop of GPSTrackerApp.run together with the Database and  *)
(* Network helpers it calls.                                               *)
(*                                                                         *)
(* Python values are modelled as follows.                                  *)
(*   - None is the empty tuple <<>>, a present optional value v is <<v>>.  *)
(*   - A reading is the 8-tuple get_gps_data returns:                      *)
(*       <<lat, lon, altitude, accuracy, timestamp, speed, bearing, batt>> *)
(*   - A stored row is the 9-tuple "SELECT * FROM gps_data" returns: the   *)
(*     AUTOINCREMENT id followed by the 8 columns.                         *)
(*   - The timestamp is the ordinal of the poll that produced the reading. *)
(***************************************************************************)
EXTENDS Integers, Sequences, FiniteSets, TLC

(* ------------------------------ bounds -------------------------------- *)
\* number of readings the sensor delivers before it only reports "no reading"
MaxReadings == 4
\* flush threshold, int(config("BUFFER_SIZE", default=10)), scaled down
BUFFER_SIZE == 3

(* ----------------------------- constants ------------------------------ *)
None == <<>>
Some(v) == <<v>>

\* config("UPDATE_FREQUENCY", default="5"): no cast, so the value is a str
UPDATE_FREQUENCY == [type |-> "str", v |-> "5"]
\* mutant: the except branch sleeps the poll interval, half the cooldown
COOLDOWN_normal == 10 \div 2

\* time.sleep(10) of the except branch
COOLDOWN == 10
\* number of names on the left of "lat, lon, ..., battery = data"
UNPACK_ARITY == 8

\* sensor positions: points on the equator.  The loop is explored with a
\* sensor that stays at longitude 0; get_gps_data on its own (SpecBearing) is
\* explored with a sensor that moves between longitudes 0 and 1.
Lats == {0}
Lons == {0}
TrackLons == {0, 1, 2}
\* what get_battery_level can return
BatteryLevels == {None}

\* outcomes of the external calls
SensorOutcomes == {"reading", "none", "raise"}
\* requests.get(google): 200 / (non-200 or ConnectionError) / other exception
ProbeOutcomes == {"true", "false", "raise"}
\* requests.get(SERVER_URL): 200 / other status / exception
DeliveryOutcomes == {"200", "status", "exc"}
\* sqlite: fine / execute or commit raises sqlite3.Error / connect raises
StorageOutcomes == {"ok", "err", "noconn"}

VARIABLES
    pc,            \* position of the loop: which statement runs next
    gps_buffer,    \* module global gps_buffer
    previous_lat,  \* module global previous_lat
    previous_lon,  \* module global previous_lon
    tableExists,   \* the database file has a table gps_data
    db,            \* rows of table gps_data, in rowid order
    nextId,        \* next AUTOINCREMENT id (sqlite_sequence + 1)
    caller,        \* who called send_gps_data_batch: "run" or "drain"
    stored_data,   \* local of send_stored_data: the fetched rows
    idx,           \* loop position inside send_gps_data_batch / flush_buffer
    success,       \* local of send_gps_data_batch
    slept,         \* argument of the last completed time.sleep (0: none yet)
    log,           \* operations of the current iteration, in order
    calls,         \* delivery calls of the current iteration, in order, each
                   \* with its parameters and whether it was acknowledged
    acked,         \* timestamps the collector acknowledged with status 200
    polled,        \* every reading get_gps_data returned, in order
    appended,      \* len(gps_buffer) right after this iteration's append (0: none)
    storageFault,  \* some sqlite call has failed so far
    fault          \* the latest outcome drawn from the environment was a failure

vars == <<pc, gps_buffer, previous_lat, previous_lon, tableExists, db, nextId, caller,
          stored_data, idx, success, slept, log, calls, acked, polled,
          appended, storageFault, fault>>

(* ------------------------------ helpers ------------------------------- *)
Ev(op, res) == [op |-> op, res |-> res]

Range(s) == {s[i] : i \in 1..Len(s)}

\* GPSHandler.calculate_bearing on the points of Lats \X Lons: both points lie
\* on the equator, so y = 0 and atan2(x, 0) is 90, -90 (normalised to 270) or 0
calculate_bearing(lat1, lon1, lat2, lon2) ==
    IF lon2 > lon1 THEN 90
    ELSE IF lon2 < lon1 THEN 270
    ELSE 0

\* mutant: the bearing is taken from the new position back to the old one
MakeReading_reversed(lat, lon, ts, batt) ==
    LET bearing == IF previous_lat # None /\ previous_lon # None
                   THEN Some(calculate_bearing(lat, lon,
                                               previous_lat[1], previous_lon[1]))
                   ELSE None
    IN  <<lat, lon, 0, 0, ts, 0, bearing, batt>>

\* the tuple get_gps_data builds from one sensor message
MakeReading(lat, lon, ts, batt) ==
    LET bearing == IF previous_lat # None /\ previous_lon # None
                   THEN Some(calculate_bearing(previous_lat[1], previous_lon[1],
                                               lat, lon))
                   ELSE None
    IN  <<lat, lon, 0, 0, ts, 0, bearing, batt>>

\* the query parameters send_gps_data_batch builds for one reading
Params(data) ==
    [lat |-> data[1], lon |-> data[2], altitude |-> data[3],
     accuracy |-> data[4], timestamp |-> data[5], speed |-> data[6],
     bearing |-> IF data[7] # None THEN data[7][1] ELSE 0,
     batt |-> IF data[8] # None THEN data[8][1] ELSE 0]

\* the sequence send_gps_data_batch iterates over
Batch == IF caller = "run" THEN gps_buffer ELSE stored_data

\* mutant: the INSERT is never committed
InsertRow_lost(rows, id, data) == rows

\* the INSERT of store_gps_data: the row gets the next AUTOINCREMENT id
InsertRow(rows, id, data) == Append(rows, <<id>> \o data)

\* the 8 data columns of a stored row
RowData(row) == SubSeq(row, 2, Len(row))

\* list.clear(): what gps_buffer.clear() leaves in the list
Cleared(buf) == <<>>

\* time.sleep accepts a number and raises TypeError for anything else
IsNumber(x) == x.type \in {"int", "float"}

\* get_gps_data, lines 209-218: the tuple returned for the current message
GpsData(lat, lon, batt) == MakeReading(lat, lon, Len(polled) + 1, batt)

\* get_gps_data, lines 178-218, for a message at (lat, lon): the reading is
\* built from the remembered position, which is then replaced
GotReading(lat, lon, batt) ==
    /\ polled' = Append(polled, GpsData(lat, lon, batt))
    /\ previous_lat' = Some(lat)
    /\ previous_lon' = Some(lon)

(* ------------------------------- Init --------------------------------- *)
Init ==
    /\ pc = "poll"
    /\ gps_buffer = <<>>
    /\ previous_lat = None
    /\ previous_lon = None
    /\ tableExists = TRUE
    /\ db = <<>>
    /\ nextId = 1
    /\ caller = "run"
    /\ stored_data = <<>>
    /\ idx = 1
    /\ success = TRUE
    /\ slept = 0
    /\ log = <<>>
    /\ calls = <<>>
    /\ acked = {}
    /\ polled = <<>>
    /\ appended = 0
    /\ storageFault = FALSE
    /\ fault = FALSE

(* ------------------------------ actions ------------------------------- *)
\* run, lines 252-257: poll the sensor, append, test the threshold
Poll ==
    /\ pc = "poll"
    /\ UNCHANGED tableExists
    /\ calls' = <<>>
    /\ \E o \in SensorOutcomes :
        \/ /\ o = "raise"
           /\ log' = <<Ev("poll", "raise")>>
           /\ pc' = "except"
           /\ fault' = TRUE
           /\ appended' = 0
           /\ UNCHANGED <<gps_buffer, previous_lat, previous_lon, polled>>
        \/ /\ o = "none"
           /\ log' = <<Ev("poll", "none")>>
           /\ pc' = "drain"
           /\ fault' = FALSE
           /\ appended' = 0
           /\ UNCHANGED <<gps_buffer, previous_lat, previous_lon, polled>>
        \/ /\ o = "reading"
           /\ Len(polled) < MaxReadings
           /\ \E lat \in Lats, lon \in Lons, batt \in BatteryLevels :
                /\ GotReading(lat, lon, batt)
                /\ gps_buffer' = Append(gps_buffer, GpsData(lat, lon, batt))
           /\ appended' = Len(gps_buffer')
           /\ log' = <<Ev("poll", "reading")>>
           /\ pc' = IF Len(gps_buffer') >= BUFFER_SIZE THEN "probe" ELSE "drain"
           /\ fault' = FALSE
    /\ UNCHANGED <<db, nextId, caller, stored_data, idx, success, slept, acked,
                   storageFault>>

\* Network.is_internet_available, lines 96-102, for one outcome of the request:
\* status 200 gives True, another status or requests.ConnectionError gives
\* False, any other exception (requests.ReadTimeout, ...) is not caught
is_internet_available(o) ==
    CASE o = "true" -> "true"
      [] o = "false" -> "false"
      [] o = "raise" -> "raise"

\* run, lines 258-269: the probe of the flush decision
Probe ==
    /\ pc = "probe"
    /\ UNCHANGED tableExists
    /\ \E o \in ProbeOutcomes :
        LET r == is_internet_available(o)
        IN  /\ log' = Append(log, Ev("probe", r))
            /\ fault' = (o # "true")
            /\ pc' = CASE r = "true" -> "send"
                       [] r = "false" -> "flush"
                       [] r = "raise" -> "except"
    /\ caller' = "run"
    /\ idx' = 1
    /\ success' = TRUE
    /\ UNCHANGED <<gps_buffer, previous_lat, previous_lon, db, nextId,
                   stored_data, slept, calls, acked, polled, appended, storageFault>>

\* mutant: the flag is overwritten by the latest call instead of accumulated
Accumulate_last(flag, o) == o = "200"

\* send_gps_data_batch, lines 124-131: the flag after one delivery call
Accumulate(flag, o) == flag /\ o = "200"

\* mutant: a failed delivery call is repeated once before the next reading
SendOne_retry ==
    /\ pc = "send"
    /\ UNCHANGED tableExists
    /\ idx <= Len(Batch)
    /\ LET data == Batch[idx]
       IN  IF Len(data) # UNPACK_ARITY
           THEN /\ log' = Append(log, Ev(IF caller = "run" THEN "sendBatch"
                                          ELSE "drain_sendBatch", "raise"))
                /\ pc' = "except"
                /\ UNCHANGED <<idx, success, calls, acked, fault>>
           ELSE \E o \in DeliveryOutcomes :
                /\ calls' = Append(calls, [from |-> caller, params |-> Params(data),
                                         ok |-> (o = "200")])
                /\ acked' = IF o = "200" THEN acked \cup {data[5]} ELSE acked
                /\ success' = Accumulate(success, o)
                /\ idx' = IF o # "200" /\ (calls = <<>> \/ calls[Len(calls)].params # Params(data))
                          THEN idx ELSE idx + 1
                /\ fault' = (o # "200")
                /\ UNCHANGED <<pc, log>>
    /\ UNCHANGED <<gps_buffer, previous_lat, previous_lon, db, nextId, caller,
                   stored_data, slept, polled, appended, storageFault>>

\* send_gps_data_batch, lines 108-131: one turn of the for loop.  The tuple
\* assignment of line 109 is outside the try block: a tuple that does not have
\* exactly 8 elements raises ValueError out of the function.
SendOne ==
    /\ pc = "send"
    /\ UNCHANGED tableExists
    /\ idx <= Len(Batch)
    /\ LET data == Batch[idx]
       IN  IF Len(data) # UNPACK_ARITY
           THEN /\ log' = Append(log, Ev(IF caller = "run" THEN "sendBatch"
                                          ELSE "drain_sendBatch", "raise"))
                /\ pc' = "except"
                /\ UNCHANGED <<idx, success, calls, acked, fault>>
           ELSE \E o \in DeliveryOutcomes :
                /\ calls' = Append(calls, [from |-> caller, params |-> Params(data),
                                         ok |-> (o = "200")])
                /\ acked' = IF o = "200" THEN acked \cup {data[5]} ELSE acked
                /\ success' = Accumulate(success, o)
                /\ idx' = idx + 1
                /\ fault' = (o # "200")
                /\ UNCHANGED <<pc, log>>
    /\ UNCHANGED <<gps_buffer, previous_lat, previous_lon, db, nextId, caller,
                   stored_data, slept, polled, appended, storageFault>>

\* mutant: a failed buffer batch is discarded instead of persisted
RunAfterSend_drop ==
    /\ gps_buffer' = Cleared(gps_buffer)
    /\ log' = log \o <<Ev("sendBatch", IF success THEN "true" ELSE "false"),
                        Ev("clear", "ok")>>
    /\ pc' = "drain"
    /\ UNCHANGED <<db, stored_data, storageFault, fault>>

\* run, lines 259-266: what run does with the result of the buffer batch
RunAfterSend ==
    /\ IF success
       THEN /\ gps_buffer' = Cleared(gps_buffer)
            /\ log' = log \o <<Ev("sendBatch", "true"), Ev("clear", "ok")>>
            /\ pc' = "drain"
       ELSE /\ log' = Append(log, Ev("sendBatch", "false"))
            /\ pc' = "flush"
            /\ UNCHANGED gps_buffer
    /\ UNCHANGED <<db, stored_data, storageFault, fault>>

\* send_stored_data, lines 240-244, with Database.delete_stored_data, lines
\* 80-90: what send_stored_data does with the result of the backlog batch
DrainAfterSend ==
    /\ IF success
       THEN \E o \in StorageOutcomes :
            /\ db' = IF o = "ok" THEN <<>> ELSE db
            /\ log' = log \o <<Ev("drain_sendBatch", "true"), Ev("delete", o)>>
            /\ pc' = IF o = "noconn" THEN "except" ELSE "sleep"
            /\ storageFault' = (storageFault \/ o # "ok")
            /\ fault' = (o # "ok")
       ELSE /\ log' = Append(log, Ev("drain_sendBatch", "false"))
            /\ pc' = "sleep"
            /\ UNCHANGED <<db, storageFault, fault>>
    /\ stored_data' = <<>>
    /\ UNCHANGED gps_buffer

\* send_gps_data_batch, line 133: the for loop is over, the flag is returned
\* to the caller
SendReturn ==
    /\ pc = "send"
    /\ UNCHANGED tableExists
    /\ idx > Len(Batch)
    /\ IF caller = "run" THEN RunAfterSend ELSE DrainAfterSend
    /\ idx' = 1
    /\ UNCHANGED <<previous_lat, previous_lon, nextId, caller, success, slept,
                   calls, acked, polled, appended>>

\* flush_buffer, lines 227-231, with Database.store_gps_data, lines 49-63: one
\* turn of the for loop.  When sqlite3.connect itself raises, conn is unbound
\* and conn.close() in the finally block raises UnboundLocalError.
StoreOne ==
    /\ pc = "flush"
    /\ UNCHANGED tableExists
    /\ idx <= Len(gps_buffer)
    /\ \E o \in StorageOutcomes :
        /\ db' = IF o = "ok" THEN InsertRow(db, nextId, gps_buffer[idx]) ELSE db
        /\ nextId' = IF o = "ok" THEN nextId + 1 ELSE nextId
        /\ log' = Append(log, Ev("store", o))
        /\ pc' = IF o = "noconn" THEN "except" ELSE "flush"
        /\ idx' = IF o = "noconn" THEN idx ELSE idx + 1
        /\ storageFault' = (storageFault \/ o # "ok")
        /\ fault' = (o # "ok")
    /\ UNCHANGED <<gps_buffer, previous_lat, previous_lon, caller, stored_data,
                   success, slept, calls, acked, polled, appended>>

\* flush_buffer, line 232: gps_buffer.clear() after the for loop
FlushClear ==
    /\ pc = "flush"
    /\ UNCHANGED tableExists
    /\ idx > Len(gps_buffer)
    /\ gps_buffer' = Cleared(gps_buffer)
    /\ log' = Append(log, Ev("clear", "ok"))
    /\ pc' = "drain"
    /\ idx' = 1
    /\ UNCHANGED <<previous_lat, previous_lon, db, nextId, caller, stored_data,
                   success, slept, calls, acked, polled, appended, storageFault, fault>>

\* mutant: the backlog is deleted also when nothing was fetched
DrainFetched_delete(f) ==
    LET rows == IF f = "ok" THEN db ELSE <<>>
    IN  /\ storageFault' = (storageFault \/ f # "ok")
        /\ fault' = (f # "ok")
        /\ IF f = "noconn"
           THEN /\ pc' = "except"
                /\ log' = log \o <<Ev("drain_probe", "true"), Ev("fetch", f)>>
                /\ UNCHANGED <<stored_data, caller, db>>
           ELSE IF rows # <<>>
           THEN /\ pc' = "send"
                /\ log' = log \o <<Ev("drain_probe", "true"), Ev("fetch", "rows")>>
                /\ stored_data' = rows
                /\ caller' = "drain"
                /\ UNCHANGED db
           ELSE /\ pc' = "sleep"
                /\ log' = log \o <<Ev("drain_probe", "true"),
                                   Ev("fetch", IF f = "ok" THEN "empty" ELSE f),
                                   Ev("delete", "ok")>>
                /\ db' = <<>>
                /\ UNCHANGED <<stored_data, caller>>

\* send_stored_data, lines 238-239 and 245-246, with
\* Database.fetch_stored_data, lines 66-77: the fetch and the test of the
\* fetched rows (a failed SELECT returns None, which is falsy)
DrainFetched(f) ==
    LET rows == IF f = "ok" THEN db ELSE <<>>
    IN  /\ storageFault' = (storageFault \/ f # "ok")
        /\ fault' = (f # "ok")
        /\ UNCHANGED db
        /\ IF f = "noconn"
           THEN /\ pc' = "except"
                /\ log' = log \o <<Ev("drain_probe", "true"), Ev("fetch", f)>>
                /\ UNCHANGED <<stored_data, caller>>
           ELSE IF rows # <<>>
           THEN /\ pc' = "send"
                /\ log' = log \o <<Ev("drain_probe", "true"), Ev("fetch", "rows")>>
                /\ stored_data' = rows
                /\ caller' = "drain"
           ELSE /\ pc' = "sleep"
                /\ log' = log \o <<Ev("drain_probe", "true"),
                                   Ev("fetch", IF f = "ok" THEN "empty" ELSE f)>>
                /\ UNCHANGED <<stored_data, caller>>

\* send_stored_data, line 237: the probe of the backlog drain
Drain ==
    /\ pc = "drain"
    /\ UNCHANGED tableExists
    /\ \E o \in ProbeOutcomes :
        LET r == is_internet_available(o)
        IN  IF r # "true"
            THEN /\ log' = Append(log, Ev("drain_probe", r))
                 /\ pc' = IF r = "raise" THEN "except" ELSE "sleep"
                 /\ fault' = TRUE
                 /\ UNCHANGED <<stored_data, caller, storageFault, db>>
            ELSE \E f \in StorageOutcomes : DrainFetched(f)
    /\ idx' = 1
    /\ success' = TRUE
    /\ UNCHANGED <<gps_buffer, previous_lat, previous_lon, nextId, slept,
                   calls, acked, polled, appended>>

\* run, lines 274-276: time.sleep(UPDATE_FREQUENCY)
Sleep ==
    /\ pc = "sleep"
    /\ UNCHANGED tableExists
    /\ IF IsNumber(UPDATE_FREQUENCY)
       THEN /\ slept' = UPDATE_FREQUENCY.v
            /\ log' = Append(log, Ev("sleep", "ok"))
            /\ pc' = "poll"
       ELSE /\ log' = Append(log, Ev("sleep", "raise"))
            /\ pc' = "except"
            /\ UNCHANGED slept
    /\ UNCHANGED <<gps_buffer, previous_lat, previous_lon, db, nextId, caller,
                   stored_data, idx, success, calls, acked, polled,
                   appended, storageFault, fault>>

\* mutant: the exception is logged and then ends run instead of being absorbed
Except_exit ==
    /\ pc = "except"
    /\ UNCHANGED tableExists
    /\ slept' = COOLDOWN
    /\ log' = Append(log, Ev("cooldown", "ok"))
    /\ pc' = "exit"
    /\ caller' = "run"
    /\ stored_data' = <<>>
    /\ idx' = 1
    /\ success' = TRUE
    /\ UNCHANGED <<gps_buffer, previous_lat, previous_lon, db, nextId, calls,
                   acked, polled, appended, storageFault, fault>>

\* run, lines 277-279: the except branch logs and sleeps the cooldown
Except ==
    /\ pc = "except"
    /\ UNCHANGED tableExists
    /\ slept' = COOLDOWN
    /\ log' = Append(log, Ev("cooldown", "ok"))
    /\ pc' = "poll"
    /\ caller' = "run"
    /\ stored_data' = <<>>
    /\ idx' = 1
    /\ success' = TRUE
    /\ UNCHANGED <<gps_buffer, previous_lat, previous_lon, db, nextId, calls,
                   acked, polled, appended, storageFault, fault>>

Next ==
    \/ Poll
    \/ Probe
    \/ SendOne
    \/ SendReturn
    \/ StoreOne
    \/ FlushClear
    \/ Drain
    \/ Sleep
    \/ Except

Spec == Init /\ [][Next]_vars

\* the loop is the only thread and is always scheduled
FairSpec == Spec /\ WF_vars(Next)

TypeOK ==
    /\ pc \in {"poll", "probe", "send", "flush", "drain", "sleep", "except"}
    /\ Len(gps_buffer) <= MaxReadings
    /\ Len(db) <= MaxReadings * MaxReadings
    /\ caller \in {"run", "drain"}
    /\ success \in BOOLEAN
    /\ slept \in {0, COOLDOWN}

(* ----------------- the Database class taken on its own ---------------- *)
\* The four static methods of Database are called directly, in any order, on
\* a database file that may or may not hold the table yet.

\* readings handed to store_gps_data when it is called directly
ApiReadings == {<<0, 0, 0, 0, t, 0, None, None>> : t \in 1..2}

\* number of calls remembered in the log of SpecStore
ApiLogLen == 4

\* the database file as one value
Table == [exists |-> tableExists, rows |-> db, seq |-> nextId]

\* what a sqlite statement on gps_data ends with: on a file without the table
\* it raises sqlite3.OperationalError even when the connection is fine
Effective(t, o) == IF o = "ok" /\ ~t.exists THEN "err" ELSE o

\* mutant: the table is created anew on every start
init_db_recreate(t, o) ==
    IF o = "ok" THEN [exists |-> TRUE, rows |-> <<>>, seq |-> 1] ELSE t

\* Database.init_db, lines 31-46: CREATE TABLE IF NOT EXISTS
init_db(t, o) ==
    IF o = "ok" /\ ~t.exists
    THEN [exists |-> TRUE, rows |-> <<>>, seq |-> 1]
    ELSE t

\* Database.store_gps_data, lines 49-63: INSERT and commit
store_gps_data(t, data, o) ==
    IF Effective(t, o) = "ok"
    THEN [t EXCEPT !.rows = InsertRow(t.rows, t.seq, data), !.seq = t.seq + 1]
    ELSE t

\* Database.delete_stored_data, lines 80-90: DELETE FROM gps_data and commit;
\* the AUTOINCREMENT sequence is kept
delete_stored_data(t, o) ==
    IF Effective(t, o) = "ok" THEN [t EXCEPT !.rows = <<>>] ELSE t

\* the last ApiLogLen calls
Remember(l, e) ==
    LET all == Append(l, e)
    IN  IF Len(all) > ApiLogLen THEN Tail(all) ELSE all

\* one direct call left the file as t and ended as res
ApiDone(t, op, res, o) ==
    /\ tableExists' = t.exists
    /\ db' = t.rows
    /\ nextId' = t.seq
    /\ log' = Remember(log, Ev(op, res))
    /\ fault' = (o # "ok")
    /\ storageFault' = (storageFault \/ res # "ok")
    /\ UNCHANGED <<pc, gps_buffer, previous_lat, previous_lon, caller,
                   stored_data, idx, success, slept, calls, acked, polled,
                   appended>>

\* __main__, line 284, or any later call: Database.init_db()
ApiInit ==
    /\ pc = "api"
    /\ \E o \in StorageOutcomes : ApiDone(init_db(Table, o), "init", o, o)

\* a direct call of Database.store_gps_data
ApiStore ==
    /\ pc = "api"
    /\ nextId <= MaxReadings
    /\ \E o \in StorageOutcomes, data \in ApiReadings :
        ApiDone(store_gps_data(Table, data, o), "store", Effective(Table, o), o)

\* a direct call of Database.delete_stored_data
ApiDelete ==
    /\ pc = "api"
    /\ \E o \in StorageOutcomes :
        ApiDone(delete_stored_data(Table, o), "delete", Effective(Table, o), o)

\* a fresh process next to a database file without the table
InitStore ==
    /\ pc = "api"
    /\ gps_buffer = <<>>
    /\ previous_lat = None
    /\ previous_lon = None
    /\ tableExists = FALSE
    /\ db = <<>>
    /\ nextId = 1
    /\ caller = "run"
    /\ stored_data = <<>>
    /\ idx = 1
    /\ success = TRUE
    /\ slept = 0
    /\ log = <<>>
    /\ calls = <<>>
    /\ acked = {}
    /\ polled = <<>>
    /\ appended = 0
    /\ storageFault = FALSE
    /\ fault = FALSE

NextStore ==
    \/ ApiInit
    \/ ApiStore
    \/ ApiDelete

SpecStore == InitStore /\ [][NextStore]_vars

(* ---------------- GPSHandler.get_gps_data taken on its own ------------- *)
\* get_gps_data is called again and again along a track on the equator

\* get_gps_data, lines 171-219: a message gives a reading and replaces the
\* remembered position; no message gives None; a failing socket raises
GetGpsData ==
    /\ pc = "gps"
    /\ \E o \in SensorOutcomes :
        /\ log' = <<Ev("poll", o)>>
        /\ fault' = (o = "raise")
        /\ \/ /\ o = "reading"
              /\ Len(polled) < MaxReadings
              /\ \E lat \in Lats, lon \in TrackLons, batt \in BatteryLevels :
                    GotReading(lat, lon, batt)
           \/ /\ o # "reading"
              /\ UNCHANGED <<polled, previous_lat, previous_lon>>
    /\ UNCHANGED <<pc, gps_buffer, tableExists, db, nextId, caller, stored_data,
                   idx, success, slept, calls, acked, appended, storageFault>>

\* a fresh process, lines 23-25: no position remembered
InitBearing ==
    /\ pc = "gps"
    /\ gps_buffer = <<>>
    /\ previous_lat = None
    /\ previous_lon = None
    /\ tableExists = TRUE
    /\ db = <<>>
    /\ nextId = 1
    /\ caller = "run"
    /\ stored_data = <<>>
    /\ idx = 1
    /\ success = TRUE
    /\ slept = 0
    /\ log = <<>>
    /\ calls = <<>>
    /\ acked = {}
    /\ polled = <<>>
    /\ appended = 0
    /\ storageFault = FALSE
    /\ fault = FALSE

NextBearing == GetGpsData

SpecBearing == InitBearing /\ [][NextBearing]_vars

(* ------------------------- observation helpers ------------------------ *)
HasEv(op, res) == Ev(op, res) \in Range(log)

HasOp(op) == \E i \in 1..Len(log) : log[i].op = op

Count(op) == Cardinality({i \in 1..Len(log) : log[i].op = op})

\* the reading is one of the rows of the table, column for column
InStore(data) == \E i \in 1..Len(db) : RowData(db[i]) = data

\* a row of the table carries this timestamp
StoredTs(t) == \E i \in 1..Len(db) : db[i][6] = t

\* the loop is between two iterations: the log is that of a finished iteration
IterationOver == pc = "poll" /\ log # <<>>

(* ------------------------------- C1 ----------------------------------- *)
\* the step clears a buffer that is being persisted because the probe
\* reported unreachable
ClearsUnreachableBuffer ==
    /\ pc = "flush"
    /\ HasEv("probe", "false")
    /\ gps_buffer # <<>>
    /\ gps_buffer' = <<>>

\* C1 as stated: whenever the buffer is cleared after the probe reported
\* unreachable, every reading of the buffer is already a row of the Durable
\* Store, field for field.
C1_NoLossOriginal ==
    [][ClearsUnreachableBuffer
         => \A i \in 1..Len(gps_buffer) : InStore(gps_buffer[i])]_vars

\* C1 amended: whenever the buffer is cleared after the probe reported
\* unreachable and no store_gps_data call of that flush failed with a storage
\* error, every reading of the buffer is already a row of the Durable Store,
\* field for field.
C1_NoLoss ==
    [][(ClearsUnreachableBuffer /\ ~HasEv("store", "err"))
         => \A i \in 1..Len(gps_buffer) : InStore(gps_buffer[i])]_vars

C1_Witness ==
    /\ pc = "drain"
    /\ HasEv("probe", "false")
    /\ HasEv("clear", "ok")
    /\ Count("store") = appended
    /\ ~HasEv("store", "err")
    /\ gps_buffer = <<>>
    /\ \A i \in 1..Len(polled) : InStore(polled[i])

(* ------------------------------- C2 ----------------------------------- *)
\* a delivery call of the backlog batch was acknowledged for this timestamp
DeliveredByBacklog(t) ==
    \E i \in 1..Len(calls) :
        /\ calls[i].from = "drain"
        /\ calls[i].ok
        /\ calls[i].params.timestamp = t

\* C2: if from some point on no probe, delivery call, store operation or
\* sensor poll fails, every reading that is in the Durable Store is eventually
\* delivered by a backlog batch and the store ends up empty for good.
C2_EventualDelivery ==
    <>[](~fault)
      => /\ \A t \in 1..MaxReadings : [](StoredTs(t) => <>DeliveredByBacklog(t))
         /\ <>[](db = <<>>)

(* ------------------------------- C3 ----------------------------------- *)
\* delete_stored_data appears in the log exactly after a backlog batch that
\* returned True
DeleteFollowsSuccess(l) ==
    \A i \in 1..Len(l) :
        /\ l[i].op = "delete" => (i > 1 /\ l[i - 1] = Ev("drain_sendBatch", "true"))
        /\ l[i] = Ev("drain_sendBatch", "true") => (i < Len(l) /\ l[i + 1].op = "delete")

\* C3: delete_stored_data is invoked, and rows leave the table, if and only
\* if the backlog batch fetched in the same drain step has just returned True;
\* never after a batch that did not return True, an empty fetch or an
\* unreachable probe.
C3_ClearOnlyOnSuccess ==
    [][/\ DeleteFollowsSuccess(log')
       /\ Len(db') < Len(db)
            => /\ pc = "send" /\ caller = "drain" /\ success
               /\ log' = log \o <<Ev("drain_sendBatch", "true"), Ev("delete", "ok")>>]_vars

\* a non-empty backlog was fetched, its batch did not return True, and the
\* table was left alone
C3_Witness ==
    /\ HasEv("drain_probe", "true")
    /\ HasEv("fetch", "rows")
    /\ HasOp("drain_sendBatch")
    /\ ~HasEv("drain_sendBatch", "true")
    /\ ~HasOp("delete")
    /\ db # <<>>

(* ------------------------------- C4 ----------------------------------- *)
\* the probe of step 3 returned, so run chose between sending and persisting
FlushDecided == HasEv("probe", "true") \/ HasEv("probe", "false")

\* step 3 of the current iteration is over
PastStep3 ==
    \/ pc \in {"drain", "sleep", "except", "poll"}
    \/ pc = "send" /\ caller = "drain"

\* C4: once a flush decision was taken in an iteration, the buffer is empty
\* from the end of step 3 on, whatever the probe, the transmitter and the
\* store operations did.
C4_FlushTriggersClear == (FlushDecided /\ PastStep3) => gps_buffer = <<>>

(* ------------------------------- C5 ----------------------------------- *)
\* C5: as long as no storage operation has failed, every reading the sensor
\* poll returned is in the buffer, in the Durable Store or acknowledged by the
\* collector.
C5_NoSilentDrop ==
    ~storageFault
      => \A i \in 1..Len(polled) :
            \/ polled[i] \in Range(gps_buffer)
            \/ InStore(polled[i])
            \/ polled[i][5] \in acked

\* a reading whose delivery failed survives in the store only, next to an
\* acknowledged one
C5_Witness ==
    /\ ~storageFault
    /\ acked # {}
    /\ \E i \in 1..Len(polled) :
        /\ polled[i] \notin Range(gps_buffer)
        /\ polled[i][5] \notin acked
        /\ InStore(polled[i])

(* ------------------------------- C6 ----------------------------------- *)
\* the delivery calls issued for the buffer batch in this iteration
RunCalls == SelectSeq(calls, LAMBDA c : c.from = "run")

AllAcked(cs) == \A i \in 1..Len(cs) : cs[i].ok

\* C6: while send_gps_data_batch works on a batch of readings it has issued
\* one delivery call for each reading before the current one, in order,
\* whatever failed before; it returns only after the last reading, and its
\* result is True exactly when every call was acknowledged with status 200.
C6_BatchPartialFailure ==
    /\ (pc = "send" /\ caller = "run")
         => /\ Len(RunCalls) = idx - 1
            /\ \A i \in 1..Len(RunCalls) : RunCalls[i].params = Params(gps_buffer[i])
            /\ success = AllAcked(RunCalls)
    /\ HasOp("sendBatch")
         => /\ Len(RunCalls) = appended
            /\ HasEv("sendBatch", "true") <=> AllAcked(RunCalls)

\* the first call of a batch failed, the last one was still issued and
\* acknowledged, and the batch is about to return False
C6_Witness ==
    /\ pc = "send"
    /\ caller = "run"
    /\ idx > Len(gps_buffer)
    /\ Len(calls) >= 2
    /\ ~calls[1].ok
    /\ calls[Len(calls)].ok
    /\ ~success

(* ------------------------------- C7 ----------------------------------- *)
\* C7: an iteration whose append brings the buffer to the threshold makes
\* exactly one flush decision before the next poll: one probe followed by one
\* batch of the buffer or one persist-and-clear; an iteration that leaves the
\* buffer below the threshold makes none and keeps the buffer.
C7_ThresholdTrigger ==
    IterationOver
      => /\ appended = BUFFER_SIZE
              => /\ Count("probe") = 1
                 /\ Count("sendBatch") <= 1
                 /\ Count("clear") <= 1
                 /\ HasOp("sendBatch") \/ (HasOp("store") /\ HasOp("clear"))
         /\ (0 < appended /\ appended < BUFFER_SIZE)
              => /\ ~HasOp("probe")
                 /\ ~HasOp("sendBatch")
                 /\ ~HasOp("store")
                 /\ ~HasOp("clear")
                 /\ Len(gps_buffer) = appended

(* ------------------------------- C8 ----------------------------------- *)
\* no sensor, probe, transmitter or store operation of the iteration failed
CleanIteration ==
    /\ \A i \in 1..Len(log) :
         log[i].op \notin {"sleep", "cooldown"}
           => log[i].res \notin {"raise", "err", "noconn"}
    /\ AllAcked(calls)

\* C8: an iteration in which nothing raised ends by sleeping the poll
\* interval of 5, not the cooldown of 10.
C8_NormalSleep ==
    (IterationOver /\ CleanIteration)
      => /\ log[Len(log)] = Ev("sleep", "ok")
         /\ slept = 5

(* ------------------------------- C9 ----------------------------------- *)
\* C9: in an iteration whose sensor poll raises, no step changes the buffer
\* or the table, and the only step after the poll is the cooldown sleep of 10.
C9_CooldownOnError ==
    [][(log' # <<>> /\ log'[1] = Ev("poll", "raise"))
         => /\ gps_buffer' = gps_buffer
            /\ db' = db
            /\ Len(log') > 1
                 => /\ log' = <<Ev("poll", "raise"), Ev("cooldown", "ok")>>
                    /\ slept' = 10
                    /\ pc' = "poll"]_vars

\* the poll raised with readings waiting in the buffer, and the loop slept 10
C9_Witness ==
    /\ pc = "poll"
    /\ log = <<Ev("poll", "raise"), Ev("cooldown", "ok")>>
    /\ slept = 10
    /\ gps_buffer # <<>>

(* ------------------------------- C10 ---------------------------------- *)
IsProbe(e) == e.op \in {"probe", "drain_probe"}

\* C10: a probe never raises, a failed probe never sends the loop into the
\* except branch, and a failed probe of step 3 leads to the persist-and-clear
\* fallback.
C10_ProbeNeverPropagates ==
    /\ \A i \in 1..Len(log) : IsProbe(log[i]) => log[i].res \in {"true", "false"}
    /\ (log # <<>> /\ IsProbe(log[Len(log)])) => pc # "except"
    /\ (log # <<>> /\ log[Len(log)].op = "probe" /\ log[Len(log)].res # "true")
         => pc = "flush"

(* ------------------------------- C11 ---------------------------------- *)
\* an append of the current iteration's persist-and-clear failed
AppendFailed(l) == \E i \in 1..Len(l) : l[i].op = "store" /\ l[i].res # "ok"

\* the latest operation of the log is a failed append
AppendJustFailed(l) ==
    l # <<>> /\ l[Len(l)].op = "store" /\ l[Len(l)].res # "ok"

\* C11: once an append of the persist-and-clear fallback has failed, the step
\* that failed leaves the table as it was, nothing reaches the except branch,
\* the buffer is empty from the end of step 3 on, and the iteration ends
\* after a backlog-drain attempt without the cooldown sleep.
C11_AppendFailureNonFatal ==
    [][AppendFailed(log')
         => /\ (log' # log /\ AppendJustFailed(log')) => db' = db
            /\ pc' # "except"
            /\ ~\E i \in 1..Len(log') : log'[i].op = "cooldown"
            /\ (pc' \in {"drain", "sleep", "poll"}) => gps_buffer' = <<>>
            /\ (pc' \in {"sleep", "poll"})
                 => \E i \in 1..Len(log') : log'[i].op = "drain_probe"]_vars

(* ------------------------------- C13 ---------------------------------- *)
\* C13: whatever fails inside an iteration, the loop comes back to the sensor
\* poll that starts the next iteration, again and again.
C13_NoTerminalState == []<>(pc = "poll")

\* an iteration in which a delivery failed and the connection to the database
\* could not be opened is over, and the loop is about to poll again
C13_Witness ==
    /\ pc = "poll"
    /\ HasEv("sendBatch", "false")
    /\ HasEv("store", "noconn")
    /\ HasOp("cooldown")

(* ------------------------------- C14 ---------------------------------- *)
\* the step is a direct call of this Database method
ApiCall(op) == pc = "api" /\ log' # <<>> /\ log'[Len(log')].op = op

\* C14: delete_stored_data on an existing, empty table, when sqlite itself
\* does not fail, leaves the table empty and neither logs nor raises an error,
\* however often it is repeated; init_db on a file that has the table leaves
\* the table, its rows and its id sequence as they are.
C14_IdempotentStore ==
    [][/\ (ApiCall("delete") /\ tableExists /\ db = <<>> /\ ~fault')
            => /\ db' = <<>>
               /\ tableExists'
               /\ log'[Len(log')].res = "ok"
       /\ (ApiCall("init") /\ tableExists)
            => /\ db' = db
               /\ nextId' = nextId
               /\ tableExists']_vars

\* the table was emptied, emptied again without error, then filled, and
\* init_db ran on it and left the row in place
C14_Witness ==
    /\ pc = "api"
    /\ log = <<Ev("delete", "ok"), Ev("delete", "ok"), Ev("store", "ok"),
               Ev("init", "ok")>>
    /\ Len(db) = 1

(* ------------------------------- C15 ---------------------------------- *)
\* the bearing every polled reading must carry
BearingsFollowTrack ==
    \A i \in 1..Len(polled) :
        IF i = 1
        THEN polled[i][7] = None
        ELSE polled[i][7] = Some(calculate_bearing(polled[i-1][1], polled[i-1][2],
                                                   polled[i][1], polled[i][2]))

\* the remembered position is that of the last polled reading
RemembersLast ==
    IF polled = <<>>
    THEN previous_lat = None /\ previous_lon = None
    ELSE /\ previous_lat = Some(polled[Len(polled)][1])
         /\ previous_lon = Some(polled[Len(polled)][2])

\* C15: exactly the first reading polled since process start has no bearing;
\* every later reading carries the bearing from the position of the reading
\* polled just before it to its own position; the remembered position is
\* replaced by every poll that returns a reading and left alone by a poll
\* that returns none.
C15_BearingFirstPoint ==
    /\ [](BearingsFollowTrack /\ RemembersLast)
    /\ [][(pc = "gps" /\ log'[1].res # "reading")
            => UNCHANGED <<previous_lat, previous_lon, polled>>]_vars

\* three readings going east then west, with a poll without reading after
\* them: no bearing, then 90, then 270
C15_Witness ==
    /\ pc = "gps"
    /\ Len(polled) = 3
    /\ polled[1][7] = None
    /\ polled[2][7] = Some(90)
    /\ polled[3][7] = Some(270)
    /\ log = <<Ev("poll", "none")>>
    /\ previous_lon = Some(polled[3][2])

(* ------------------------------- C16 ---------------------------------- *)
\* C16: every finished iteration whose sensor poll returned (a reading or
\* none) has made exactly one backlog-drain attempt, a probe query followed
\* by a fetch when the probe reported reachable, whatever happened to the
\* flush decision of the same iteration.
C16_DrainEveryCycle ==
    (IterationOver /\ log[1].res # "raise")
        => /\ Count("drain_probe") = 1
           /\ HasEv("drain_probe", "true") => HasOp("fetch")

(* ------------------------------- C17 ---------------------------------- *)
\* C17: the buffer never holds more than BUFFER_SIZE readings, and between
\* two iterations it holds fewer than BUFFER_SIZE readings.
C17_BoundedBuffer ==
    /\ Len(gps_buffer) <= BUFFER_SIZE
    /\ IterationOver => Len(gps_buffer) < BUFFER_SIZE

(* ------------------------------- C18 ---------------------------------- *)
\* the collector acknowledged this reading in a buffer batch that was
\* nevertheless reported failed, and the reading was persisted with the rest
\* of the buffer
AckedAndPersisted(t) == t \in acked /\ StoredTs(t)

\* no delivery call is ever issued for a fetched row
NoBacklogDeliveryCall == \A i \in 1..Len(calls) : calls[i].from # "drain"

\* C18: a reading that was acknowledged in a failed buffer batch and persisted
\* with the full buffer is delivered a second time by a later backlog batch,
\* once probe, collector, store and sensor have stopped failing.
C18_DuplicateDelivery ==
    <>[](~fault)
      => \A t \in 1..MaxReadings :
            [](AckedAndPersisted(t) => <>DeliveredByBacklog(t))

(* ------------------------------- C19 ---------------------------------- *)
\* a delivery call for this reading was issued from the buffer in this
\* iteration and failed
FailedFromBuffer(t) ==
    \E i \in 1..Len(calls) :
        /\ calls[i].from = "run"
        /\ ~calls[i].ok
        /\ calls[i].params.timestamp = t

\* the backlog drain of this iteration has fetched the reading and handed it
\* to send_gps_data_batch
HandedToBacklogBatch(t) ==
    /\ HasEv("fetch", "rows")
    /\ caller = "drain"
    /\ \E k \in 1..Len(stored_data) : stored_data[k][6] = t

C20_FifoBacklog ==
    /\ \A i, j \in 1..Len(db) :
         i < j => db[i][1] < db[j][1] /\ db[i][6] <= db[j][6]
    /\ (pc = "send" /\ caller = "drain") => stored_data = db

====
